---- MODULE Spec2Model ----
(***************************************************************************)
(* A model of the HAPI archive reader (hapi-rs): the custom LZ77 chunk     *)
(* decoder with its 4096-byte circular window, the chunk byte stream, the  *)
(* chunk parser with its additive checksum, the header decoder and key     *)
(* derivation, the deciphering byte source, the chunk count of a           *)
(* compressed file, write_file's loop over the chunks, the directory       *)
(* parser and an archive handle across write_file calls.                   *)
(***************************************************************************)
EXTENDS Integers, Sequences, FiniteSets, TLC

VARIABLES
    chunk,      \* the HapiCompressedChunk under decode (self of decode_lz77)
    lz,         \* the locals of decode_lz77 and of its HapiChunkDecoder
    output,     \* the sink (output: &mut W)
    emitted,    \* history: every byte the decoder stored in the window, in order
    ref,        \* history: what a byte-at-a-time forward copy yields for the last pointer
    rd,         \* the deciphering byte source (HapiReader) and its last delivery
    pk,         \* the chunk parser's input bytes and its outcome
    hd,         \* the header decoder's input bytes and the outcome of HapiReader::new
    fc,         \* the chunk count computation of HapiFileContents
    wf,         \* write_file: the parsed chunks, its position and its result
    toc,        \* the directory parser: the stream position, its frames and the tree
    dec,        \* a HapiChunkDecoder read in successive calls, and what it delivered
    ar          \* an archive handle across write_file calls: the cursor and the calls

vars == <<chunk, lz, output, emitted, ref, rd, pk, hd, fc, wf, toc, dec, ar>>

-----------------------------------------------------------------------------
(* Machine integers and bit operations                                      *)

Byte == 0 .. 255

None == -1

RECURSIVE BitAnd(_, _)
BitAnd(a, b) ==
    IF a = 0 \/ b = 0 THEN 0
    ELSE (a % 2) * (b % 2) + 2 * BitAnd(a \div 2, b \div 2)

RECURSIVE BitOr(_, _)
BitOr(a, b) ==
    IF a = 0 THEN b
    ELSE IF b = 0 THEN a
    ELSE (IF a % 2 = 1 \/ b % 2 = 1 THEN 1 ELSE 0) + 2 * BitOr(a \div 2, b \div 2)

RECURSIVE BitXor(_, _)
BitXor(a, b) ==
    IF a = 0 THEN b
    ELSE IF b = 0 THEN a
    ELSE ((a + b) % 2) + 2 * BitXor(a \div 2, b \div 2)

\* !x on a u8
NotU8(x) == 255 - x

\* as u8
AsU8(x) == x % 256

\* A u32 is kept as its two 16-bit halves <<high, low>>.
U32Of(n) == <<(n \div 65536) % 65536, n % 65536>>

\* as u8 of a u32
U32AsU8(a) == a[2] % 256

U32Xor(a, b) == <<BitXor(a[1], b[1]), BitXor(a[2], b[2])>>

U32Or(a, b) == <<BitOr(a[1], b[1]), BitOr(a[2], b[2])>>

\* !x on a u32
U32Not(a) == <<65535 - a[1], 65535 - a[2]>>

\* x >> 6 on a u32
U32Shr6(a) == <<a[1] \div 64, (a[2] \div 64) + (a[1] % 64) * 1024>>

\* x * 4 on a u32, not reduced: the high half is 65536 or more on overflow
U32Times4(a) == <<a[1] * 4 + (a[2] * 4) \div 65536, (a[2] * 4) % 65536>>

\* x + n on a u32 for 0 <= n <= 65536, not reduced
U32Plus(a, n) == <<a[1] + (a[2] + n) \div 65536, (a[2] + n) % 65536>>

\* x - 1 on a u32, not reduced: the high half is negative on underflow
U32Minus1(a) == IF a[2] > 0 THEN <<a[1], a[2] - 1>> ELSE <<a[1] - 1, 65535>>

\* whether an unreduced result left the range of u32
U32Overflowed(a) == a[1] < 0 \/ a[1] > 65535

\* the wrapped value of an unreduced result
U32Wrap(a) == <<a[1] % 65536, a[2]>>

\* the builds of the crate: arithmetic overflow panics when overflow checks are
\* on (the dev and test profiles) and wraps when they are off (release)
Builds == {"debug", "release"}

-----------------------------------------------------------------------------
(* The chunk byte stream: HapiChunkDecoder                                  *)

HAPI_LZ77_WINDOW_SIZE == 4095

\* Number of tag groups of the long payload prefix (see PrefixByte).
PrefixGroups == 30

\* Longest payload tail, in bytes, that the decoder is fed after the prefix.
MaxTail == 8

\* the tag byte and its eight literals
LeadLen == 1 + 8

\* a tag byte and its eight two-byte pointers
GroupLen == 1 + 2 * 8

\* Byte i of the long payload prefix: tag 0x00 and the literals 0x41 .. 0x48, then
\* tag groups 0xFF followed by eight pointers 1F 00 (offset 0, count 17).
PrefixByte(i) ==
    IF i = 0 THEN 0
    ELSE IF i < LeadLen THEN 64 + i
    ELSE LET k == (i - LeadLen) % GroupLen
         IN  IF k = 0 THEN 255 ELSE IF k % 2 = 1 THEN 31 ELSE 0

PrefixLens == {0, LeadLen + GroupLen * PrefixGroups}

\* self.source.data.len()
DataLen(c) == c.prefixLen + Len(c.tail)

\* self.source.data[i]
DataAt(c, i) == IF i < c.prefixLen THEN PrefixByte(i) ELSE c.tail[i - c.prefixLen + 1]

\* One byte of input.bytes() at cur_pos: None at the end of the data, else the
\* stored byte, transformed when the chunk is enciphered.
ChunkRead(c, cur_pos) ==
    IF cur_pos >= DataLen(c) THEN None
    ELSE IF c.is_enciphered
         THEN \* ((*byte as usize).wrapping_sub(count) ^ count) as u8: the low eight
              \* bits, which only the low eight bits of the operands decide
              BitXor((DataAt(c, cur_pos) - cur_pos) % 256, cur_pos % 256)
         ELSE DataAt(c, cur_pos)

-----------------------------------------------------------------------------
(* decode_lz77                                                              *)

WindowLen == HAPI_LZ77_WINDOW_SIZE + 1

\* window[a..b] as a sequence
Slice(w, a, b) == [i \in 1 .. (b - a) |-> w[a + i - 1]]

\* slice::copy_within(src_start..src_end, dest): a memmove, every source byte is
\* read before any is written
RECURSIVE CopyFrom(_, _, _, _, _)
CopyFrom(w, w0, src, dest, n) ==
    IF n = 0 THEN w
    ELSE CopyFrom([w EXCEPT ![dest] = w0[src]], w0, src + 1, dest + 1, n - 1)

CopyWithin(w, src_start, src_end, dest) ==
    CopyFrom(w, w, src_start, dest, src_end - src_start)

\* copy_within panics when the source range or the destination leaves the slice
CopyWithinOk(src_start, src_end, dest) ==
    /\ src_start <= src_end
    /\ src_end <= WindowLen
    /\ dest <= WindowLen - (src_end - src_start)

\* the loop of lz77_pointer_naive_push: one byte at a time, indexes masked, the
\* whole window flushed when the last index has been written
RECURSIVE NaiveLoop(_, _, _, _)
NaiveLoop(s, idx_src, idx_dest, n) ==
    IF n = 0 THEN s
    ELSE LET w == [s.window EXCEPT
                      ![BitAnd(idx_dest, HAPI_LZ77_WINDOW_SIZE)] =
                          s.window[BitAnd(idx_src, HAPI_LZ77_WINDOW_SIZE)]]
             b == IF idx_dest = HAPI_LZ77_WINDOW_SIZE
                  THEN s.buffer \o Slice(w, 0, WindowLen)
                  ELSE s.buffer
         IN  NaiveLoop([s EXCEPT !.window = w, !.buffer = b],
                       idx_src + 1, idx_dest + 1, n - 1)

\* window_iter.nth(n - 1): n indexes are consumed, or all that are left
IterNth(window_iter, n) ==
    IF window_iter + n > WindowLen THEN WindowLen ELSE window_iter + n

NaivePush(s, copy_start, copy_count) ==
    LET dest == s.window_iter
        t    == NaiveLoop(s, copy_start, dest, copy_count)
    IN  [t EXCEPT !.window_iter =
            IF dest + copy_count > HAPI_LZ77_WINDOW_SIZE
            THEN BitAnd(dest + copy_count, HAPI_LZ77_WINDOW_SIZE)
            ELSE IterNth(dest, copy_count)]

\* offset + count > HAPI_LZ77_WINDOW_SIZE: the source run wraps
WrapSourceCopy(s, offset, count) ==
    LET after_wrap  == BitAnd(offset + count, HAPI_LZ77_WINDOW_SIZE)
        before_wrap == count - after_wrap
        dest        == s.window_iter
        w1          == CopyWithin(s.window, offset, WindowLen, dest)
    IN  IF ~CopyWithinOk(offset, WindowLen, dest)
        THEN [s EXCEPT !.status = "panic"]
        ELSE IF ~CopyWithinOk(0, after_wrap, dest + before_wrap)
        THEN [s EXCEPT !.status = "panic", !.window = w1]
        ELSE [s EXCEPT !.window = CopyWithin(w1, 0, after_wrap, dest + before_wrap),
                       !.window_iter = IterNth(dest, count)]

\* count > window_iter.len(): the destination run wraps
WrapDestCopy(s, offset, count) ==
    LET data_len      == s.window_iter
        remaining_len == WindowLen - s.window_iter
        b1            == s.buffer \o Slice(s.window, 0, data_len)
        w1            == CopyWithin(s.window, offset, offset + remaining_len, data_len)
        w2            == CopyWithin(w1, offset + remaining_len, offset + count, 0)
    IN  [s EXCEPT !.window = w2,
                  !.buffer = b1 \o Slice(w2, data_len, WindowLen),
                  !.window_iter = BitAnd(data_len + count, HAPI_LZ77_WINDOW_SIZE)]

PlainCopy(s, offset, count) ==
    [s EXCEPT !.window = CopyWithin(s.window, offset, offset + count, s.window_iter),
              !.window_iter = IterNth(s.window_iter, count)]

\* the four branches of a back-reference
PointerBranch(s, offset, count) ==
    IF s.window_iter \in offset .. (offset + count - 1) THEN "naive"
    ELSE IF offset + count > HAPI_LZ77_WINDOW_SIZE THEN "wrap_source"
    ELSE IF count > WindowLen - s.window_iter THEN "wrap_dest"
    ELSE "plain"

PointerCopy(s, offset, count) ==
    LET br == PointerBranch(s, offset, count)
    IN  IF br = "naive" THEN NaivePush(s, offset, count)
        ELSE IF br = "wrap_source" THEN WrapSourceCopy(s, offset, count)
        ELSE IF br = "wrap_dest" THEN WrapDestCopy(s, offset, count)
        ELSE PlainCopy(s, offset, count)

\* if window_iter.len() == 0 { flush contents }
FlushWindow(s) ==
    IF WindowLen - s.window_iter = 0
    THEN [s EXCEPT !.buffer = s.buffer \o Slice(s.window, 0, WindowLen),
                   !.window_iter = 0]
    ELSE s

\* Sentinel without the flush of the unflushed window prefix
SentinelDropsWindow(s) ==
    [s EXCEPT !.written = s.buffer, !.ret = Len(s.buffer), !.status = "ok"]

\* the end-of-stream branch: the buffer and the unflushed prefix of the window
\* are what write_all receives; the buffer's length is returned
Sentinel(s) ==
    LET data_len == WindowLen - (WindowLen - s.window_iter)
        b        == s.buffer \o Slice(s.window, 0, data_len)
    IN  [s EXCEPT !.buffer = b, !.written = b, !.ret = Len(b), !.status = "ok"]

\* for bit in 0..=7: the next bit of this tag, or the next tag
NextBit(s) ==
    IF s.status # "running" THEN s
    ELSE IF s.bit = 7 THEN [s EXCEPT !.at = "tag"]
    ELSE [s EXCEPT !.bit = s.bit + 1]

\* input.next() for the tag byte
ReadTag(s, c) ==
    LET t == ChunkRead(c, s.cur_pos)
    IN  IF t = None
        THEN [s EXCEPT !.status = "UnexpectedEof", !.eof = TRUE,
                       !.op = [kind |-> "eof", branch |-> "tag",
                               offset |-> 0, count |-> 0, dest |-> s.window_iter]]
        ELSE [s EXCEPT !.tag = t, !.bit = 0, !.at = "bit", !.cur_pos = s.cur_pos + 1,
                       !.op = [kind |-> "tag", branch |-> "",
                               offset |-> 0, count |-> 0, dest |-> s.window_iter]]

TagBitSet(tag, bit) == BitAnd(tag, 2 ^ bit) # 0

\* tag & (1 << bit) == 0: one literal
Literal(s, c) ==
    LET lit == ChunkRead(c, s.cur_pos)
    IN  IF lit = None
        THEN [s EXCEPT !.status = "UnexpectedEof", !.eof = TRUE,
                       !.op = [kind |-> "eof", branch |-> "literal",
                               offset |-> 0, count |-> 0, dest |-> s.window_iter]]
        ELSE [s EXCEPT !.window = [s.window EXCEPT ![s.window_iter] = lit],
                       !.window_iter = s.window_iter + 1,
                       !.cur_pos = s.cur_pos + 1,
                       !.op = [kind |-> "literal", branch |-> "",
                               offset |-> 0, count |-> 1, dest |-> s.window_iter]]

\* tag & (1 << bit) != 0: two bytes, a back-reference or the end of the stream
Pointer(s, c) ==
    LET lo == ChunkRead(c, s.cur_pos)
        hi == ChunkRead(c, s.cur_pos + 1)
    IN  IF lo = None \/ hi = None
        THEN \* input.next().unwrap() on None
             [s EXCEPT !.status = "panic", !.eof = TRUE,
                       !.cur_pos = IF lo = None THEN s.cur_pos ELSE s.cur_pos + 1,
                       !.op = [kind |-> "eof", branch |-> "pointer",
                               offset |-> 0, count |-> 0, dest |-> s.window_iter]]
        ELSE LET offset == BitOr(hi * 256, lo) \div 16
                 count  == BitAnd(lo, 15) + 2
                 t      == [s EXCEPT !.cur_pos = s.cur_pos + 2]
             IN  IF offset # 0
                 THEN [PointerCopy(t, offset - 1, count) EXCEPT
                          !.op = [kind |-> "pointer",
                                  branch |-> PointerBranch(t, offset - 1, count),
                                  offset |-> offset - 1, count |-> count,
                                  dest |-> s.window_iter]]
                 ELSE [Sentinel(t) EXCEPT
                          !.op = [kind |-> "sentinel", branch |-> "",
                                  offset |-> 0, count |-> 0, dest |-> s.window_iter]]

\* One pass of the body of `for bit in 0..=7`
DecodeBit(s, c) ==
    LET f == FlushWindow(s)
    IN  NextBit(IF TagBitSet(f.tag, f.bit) THEN Pointer(f, c) ELSE Literal(f, c))

\* One step of decode_lz77: the tag byte of the outer loop, or one bit of a tag
DecodeStep(s, c) == IF s.at = "tag" THEN ReadTag(s, c) ELSE DecodeBit(s, c)

\* the locals of decode_lz77 as it enters its loop
LzStart ==
    [window      |-> [i \in 0 .. HAPI_LZ77_WINDOW_SIZE |-> 0],
     window_iter |-> 0,
     buffer      |-> <<>>,
     cur_pos     |-> 0,
     tag         |-> 0,
     bit         |-> 0,
     at          |-> "tag",
     status      |-> "running",
     eof         |-> FALSE,
     written     |-> <<>>,
     ret         |-> 0,
     op          |-> [kind |-> "none", branch |-> "", offset |-> 0, count |-> 0,
                      dest |-> 0]]

\* decode_lz77 run to its return (or its panic) on a chunk whose data is all there
RECURSIVE RunLz77(_, _)
RunLz77(s, c) == IF s.status # "running" THEN s ELSE RunLz77(DecodeStep(s, c), c)

-----------------------------------------------------------------------------
(* The decoder fed one chunk payload, byte by byte                          *)

\* The bytes the payload may continue with, by what the decoder reads them as.
TagBytes == {0, 1, 2, 3, 32}

LitBytes == {65, 66}

LoBytes == {0, 31, 255}

HiBytes == {0, 255}

\* the bytes the coming step reads: a tag, a literal, or the two of a pointer
Wanted(s) ==
    IF s.at = "tag" THEN <<TagBytes>>
    ELSE IF TagBitSet(s.tag, s.bit) THEN <<LoBytes, HiBytes>>
    ELSE <<LitBytes>>

\* The payload continues with as many of the wanted bytes as it still holds:
\* all of them, or fewer when it ends here.
Continuations(s, c) ==
    LET want == Wanted(s)
        room == MaxTail - Len(c.tail)
        most == IF Len(want) < room THEN Len(want) ELSE room
    IN  {<<>>}
        \cup (IF most >= 1 THEN {<<a>> : a \in want[1]} ELSE {})
        \cup (IF most >= 2 THEN {<<a, b>> : a \in want[1], b \in want[2]} ELSE {})

\* the bytes a step stored in the window, in the order it stored them
Stored(t) ==
    IF t.status = "panic" THEN <<>>
    ELSE IF t.op.kind \in {"literal", "pointer"}
    THEN [i \in 1 .. t.op.count |-> t.window[(t.op.dest + i - 1) % WindowLen]]
    ELSE <<>>

\* window[(dest+i) mod 4096] := window[(offset+i) mod 4096] for i = 0 .. count-1,
\* one byte at a time: the bytes it stores
RECURSIVE ForwardCopy(_, _, _, _)
ForwardCopy(w, dest, offset, count) ==
    IF count = 0 THEN <<>>
    ELSE LET b == w[offset % WindowLen]
         IN  <<b>> \o ForwardCopy([w EXCEPT ![dest % WindowLen] = b],
                                  dest + 1, offset + 1, count - 1)

LzAdvance(c2) ==
    LET t == DecodeStep(lz, c2)
    IN  /\ chunk' = c2
        /\ lz' = t
        /\ emitted' = emitted \o Stored(t)
        /\ ref' = IF t.op.kind = "pointer"
                  THEN ForwardCopy(lz.window, t.op.dest, t.op.offset, t.op.count)
                  ELSE <<>>
        /\ output' = IF t.status = "ok" THEN output \o t.written ELSE output
        /\ UNCHANGED <<rd, pk, hd, fc, wf, toc, dec, ar>>

Feed(ext) == [chunk EXCEPT !.tail = chunk.tail \o ext]

\* loop { if let Some(tag) = input.next() ... }
LzTag ==
    /\ lz.status = "running"
    /\ lz.at = "tag"
    /\ lz.cur_pos >= chunk.prefixLen
    /\ \E ext \in Continuations(lz, chunk) : LzAdvance(Feed(ext))

\* a clear tag bit: one literal
LzLiteral ==
    /\ lz.status = "running"
    /\ lz.at = "bit"
    /\ ~TagBitSet(lz.tag, lz.bit)
    /\ lz.cur_pos >= chunk.prefixLen
    /\ \E ext \in Continuations(lz, chunk) : LzAdvance(Feed(ext))

\* a set tag bit: a back-reference or the end-of-stream sentinel
LzPointer ==
    /\ lz.status = "running"
    /\ lz.at = "bit"
    /\ TagBitSet(lz.tag, lz.bit)
    /\ lz.cur_pos >= chunk.prefixLen
    /\ \E ext \in Continuations(lz, chunk) : LzAdvance(Feed(ext))

\* a step inside the payload's prefix, whose bytes are all there
LzPrefix ==
    /\ lz.status = "running"
    /\ lz.cur_pos < chunk.prefixLen
    /\ LzAdvance(chunk)

Idle == [status |-> "idle"]

LzInit ==
    /\ chunk \in [prefixLen : PrefixLens, tail : {<<>>}, is_enciphered : {FALSE},
                  compression : {"Lz77"}, decompressed_size : {0}]
    /\ lz = LzStart
    /\ output = <<>>
    /\ emitted = <<>>
    /\ ref = <<>>
    /\ rd = Idle
    /\ pk = Idle
    /\ hd = Idle
    /\ fc = Idle
    /\ wf = Idle
    /\ toc = Idle
    /\ dec = Idle
    /\ ar = Idle

LzNext == LzTag \/ LzLiteral \/ LzPointer \/ LzPrefix

SpecLz == LzInit /\ [][LzNext]_vars

\* every decoded byte is kept, once and in order: the flushed windows, then the
\* unflushed prefix of the current one
Retained == lz.buffer \o Slice(lz.window, 0, lz.window_iter)

LzRetains == lz.status = "running" => Retained = emitted

\* the 16-bit value of the two bytes the last pointer step read
PointerValue == DataAt(chunk, lz.cur_pos - 1) * 256 + DataAt(chunk, lz.cur_pos - 2)

ReadPointerBytes == lz.op.kind \in {"pointer", "sentinel"}

\* C1: every back-reference (offset, count) decoded at write position dest
\* produces the count bytes of the byte-at-a-time forward copy
\* window[(dest+i) mod 4096] := window[(offset+i) mod 4096], self-overlapping
\* runs included.
C1_CopyIsForwardCopy ==
    (lz.op.kind = "pointer" /\ lz.status # "panic") => Stored(lz) = ref

\* the last step decoded a back-reference whose source run or destination run
\* crosses the end of the window
CrossesWindowEnd ==
    /\ lz.op.kind = "pointer"
    /\ \/ lz.op.offset + lz.op.count > WindowLen
       \/ lz.op.dest + lz.op.count > WindowLen

\* C2: a back-reference whose source or destination run crosses the end of the
\* window completes without an out-of-range access or abort, leaves the write
\* position at (dest + count) mod 4096, and every completed window is in the
\* output buffer once and in order.
C2_WrapCompletes ==
    CrossesWindowEnd =>
        /\ lz.status # "panic"
        /\ lz.window_iter % WindowLen = (lz.op.dest + lz.op.count) % WindowLen
        /\ Retained = emitted

\* C3: when the input runs out before the sentinel (at a tag, at a literal, or
\* within the two bytes of a pointer) decode_lz77 returns the UnexpectedEof
\* error as a value: no abort, no success.
C3_EofIsAnError == lz.eof => lz.status = "UnexpectedEof"

FiveLiterals == <<32, 65, 65, 65, 65, 65, 0, 0>>

\* C4: a two-byte value with value >> 4 = 0 read under a set tag bit stops the
\* decoder at once; the sink receives exactly the bytes decoded so far, in
\* order, and the returned length is their number. The stream 20 41 41 41 41 41
\* 00 00 yields 41 41 41 41 41 and length 5.
C4_SentinelWritesAll ==
    /\ (ReadPointerBytes /\ PointerValue \div 16 = 0) => lz.status = "ok"
    /\ lz.status = "ok" =>
          /\ ReadPointerBytes /\ PointerValue \div 16 = 0
          /\ output = emitted
          /\ lz.ret = Len(output)
          /\ ~ENABLED LzNext
    /\ (chunk.prefixLen = 0 /\ chunk.tail = FiveLiterals /\ lz.cur_pos = 8) =>
          /\ lz.status = "ok"
          /\ output = <<65, 65, 65, 65, 65>>
          /\ lz.ret = 5

\* the sentinel is met in a later lap of the window, with flushed windows in the
\* buffer and an unflushed prefix in the window
C4_Witness ==
    /\ lz.status = "ok"
    /\ Len(output) > WindowLen
    /\ lz.window_iter > 0

C4_ExampleDecoded == chunk.prefixLen = 0 /\ chunk.tail = FiveLiterals /\ lz.status = "ok"

-----------------------------------------------------------------------------
(* The deciphering byte source: impl Read / impl Seek for HapiReader        *)

\* Longest stored file of the byte source.
MaxFile == 3

\* Largest buffer handed to read().
MaxRead == 2

StoredBytes == {90, 255}

\* Option<u32>::None
NoKey == <<>>

ReaderKeys == {NoKey, <<0, 0>>, <<4660, 43981>>}

\* the byte read() leaves in buf[count] with the offset taken from the counter
\* alone, not from the position of the read
DecipherByCounter(key, start_offset, pos, count, b) ==
    IF key # NoKey /\ count >= start_offset
    THEN BitXor(U32AsU8(U32Xor(U32Of(count), key)), NotU8(b))
    ELSE b

\* the byte read() leaves in buf[count], b being what the inner reader put there
\* and pos the position the read started at
Decipher(key, start_offset, pos, count, b) ==
    LET offset == pos + count
    IN  IF key # NoKey /\ offset >= start_offset
        THEN LET char_key == U32AsU8(U32Xor(U32Of(offset), key))
             IN  BitXor(char_key, NotU8(b))
        ELSE b

\* self.inner.seek(pos): the new position, or None for a seek before the start
SeekTarget(r, whence, n) ==
    LET t == IF whence = "Start" THEN n
             ELSE IF whence = "Current" THEN r.pos + n
             ELSE Len(r.file) + n
    IN  IF t < 0 THEN None ELSE t

SeekFroms ==
    [whence : {"Start"}, n : 0 .. (MaxFile + 1)]
    \cup [whence : {"Current", "End"}, n : -2 .. 1]

\* fn seek(&mut self, pos: SeekFrom)
RdSeek ==
    /\ rd.status = "open"
    /\ \E sf \in SeekFroms :
         LET t == SeekTarget(rd, sf.whence, sf.n)
         IN  /\ t <= MaxFile + 1
             /\ rd' = IF t = None THEN rd
                       ELSE [rd EXCEPT !.pos = t,
                                       !.back = rd.back \/ t < rd.pos]
    /\ UNCHANGED <<chunk, lz, output, emitted, ref, pk, hd, fc, wf, toc, dec, ar>>

\* the byte counts self.inner.read(buf) may return for a buffer of n bytes
ReadCounts(r, n) ==
    LET avail == IF r.pos >= Len(r.file) THEN 0 ELSE Len(r.file) - r.pos
    IN  IF n = 0 \/ avail = 0 THEN {0}
        ELSE 1 .. (IF n < avail THEN n ELSE avail)

\* fn read(&mut self, buf: &mut [u8])
RdRead ==
    /\ rd.status = "open"
    /\ \E n \in 0 .. MaxRead : \E bytes_count \in ReadCounts(rd, n) :
         LET pos == rd.pos
             buf == [count \in 1 .. bytes_count |->
                        Decipher(rd.key, rd.start_offset, pos, count - 1,
                                 rd.file[pos + count])]
         IN  rd' = [rd EXCEPT !.pos = pos + bytes_count,
                              !.at = pos,
                              !.got = buf,
                              !.seen = rd.seen \cup
                                  {<<pos + count - 1, buf[count]>> :
                                      count \in 1 .. bytes_count}]
    /\ UNCHANGED <<chunk, lz, output, emitted, ref, pk, hd, fc, wf, toc, dec, ar>>

RdInit ==
    /\ rd \in [file : UNION {[1 .. n -> StoredBytes] : n \in {MaxFile}},
               key : ReaderKeys,
               start_offset : {0, 2, MaxFile + 1},
               pos : {0}, at : {0}, got : {<<>>}, seen : {{}},
               back : {FALSE}, status : {"open"}]
    /\ chunk = Idle
    /\ lz = Idle
    /\ output = <<>>
    /\ emitted = <<>>
    /\ ref = <<>>
    /\ pk = Idle
    /\ hd = Idle
    /\ fc = Idle
    /\ wf = Idle
    /\ toc = Idle
    /\ dec = Idle
    /\ ar = Idle

RdNext == RdSeek \/ RdRead

SpecReader == RdInit /\ [][RdNext]_vars

\* what the byte at absolute offset o is to be delivered as
Plain(o) ==
    IF rd.key # NoKey /\ o >= rd.start_offset
    THEN BitXor(BitXor(o % 256, rd.key[2] % 256), 255 - rd.file[o + 1])
    ELSE rd.file[o + 1]

\* C5: after any seeks and reads, every byte delivered for absolute offset o is
\* ((o XOR key) mod 256) XOR (NOT stored) when a key is present and
\* o >= toc_offset, and the stored byte otherwise; per byte also within one
\* read that straddles toc_offset.
C5_DecipherByOffset ==
    /\ \A i \in 1 .. Len(rd.got) : rd.got[i] = Plain(rd.at + i - 1)
    /\ \A d \in rd.seen : d[2] = Plain(d[1])

\* one read that straddles toc_offset, made after the cursor was moved back
C5_Witness ==
    /\ rd.key # NoKey
    /\ rd.back
    /\ rd.at > 0
    /\ rd.at < rd.start_offset
    /\ rd.at + Len(rd.got) > rd.start_offset

-----------------------------------------------------------------------------
(* The chunk parser: #[binread] struct HapiCompressedChunk                   *)

\* Longest chunk payload handed to the parser.
MaxPayload == 3

SQSH == <<83, 81, 83, 72>>

\* the u32 read little-endian from the four bytes after offset p
ReadU32(b, p) == <<b[p + 4] * 256 + b[p + 3], b[p + 2] * 256 + b[p + 1]>>

\* a u32 as its four little-endian bytes
U32Bytes(a) == <<a[2] % 256, a[2] \div 256, a[1] % 256, a[1] \div 256>>

\* the u32 as a count of bytes; more than any input here holds when its high
\* half is not 0
CountOf(a) == IF a[1] = 0 THEN a[2] ELSE 65536

\* a sum kept in eight bits
RECURSIVE ChecksumU8(_, _)
ChecksumU8(data, c) ==
    IF data = <<>> THEN c
    ELSE ChecksumU8(Tail(data), <<0, (c[2] + Head(data)) % 256>>)

\* data.iter().fold(c, |c: u32, i: &u8| c.wrapping_add(*i as u32))
RECURSIVE Checksum(_, _)
Checksum(data, c) ==
    IF data = <<>> THEN c
    ELSE Checksum(Tail(data), U32Wrap(U32Plus(c, Head(data))))

Failed(status, p) ==
    [status |-> status, next |-> p, compression |-> "None", is_enciphered |-> FALSE,
     compressed_size |-> <<0, 0>>, decompressed_size |-> <<0, 0>>,
     checksum |-> <<0, 0>>, data |-> <<>>]

CompressionOf(byte) ==
    IF byte = 0 THEN "None" ELSE IF byte = 1 THEN "Lz77" ELSE "Zlib"

\* HapiCompressedChunk::read_options on the bytes b from offset p on
ParseChunk(b, p) ==
    IF Len(b) < p + 4 THEN Failed("Io", p)
    ELSE IF SubSeq(b, p + 1, p + 4) # SQSH THEN Failed("BadMagic", p)
    ELSE IF Len(b) < p + 6 THEN Failed("Io", p)
    ELSE IF b[p + 6] > 2 THEN Failed("NoVariantMatch", p)
    ELSE IF b[p + 6] = 0 THEN Failed("AssertCompression", p)
    ELSE IF Len(b) < p + 19 THEN Failed("Io", p)
    ELSE LET compressed_size == ReadU32(b, p + 7)
             count == CountOf(compressed_size)
         IN  IF Len(b) < p + 19 + count THEN Failed("Io", p)
             ELSE LET data == SubSeq(b, p + 20, p + 19 + count)
                      checksum == ReadU32(b, p + 15)
                  IN  IF Checksum(data, <<0, 0>>) # checksum
                      THEN Failed("BadChecksum", p)
                      ELSE [status |-> "ok", next |-> p + 19 + count,
                            compression |-> CompressionOf(b[p + 6]),
                            is_enciphered |-> (b[p + 7] = 1),
                            compressed_size |-> compressed_size,
                            decompressed_size |-> ReadU32(b, p + 11),
                            checksum |-> checksum,
                            data |-> data]

\* The bytes of a chunk as an archive stores them.
ChunkBytes(magic, compression, flag, compressed_size, decompressed_size, checksum, data) ==
    magic \o <<2, compression, flag>> \o U32Bytes(compressed_size)
          \o U32Bytes(decompressed_size) \o U32Bytes(checksum) \o data

PayloadBytes == {0, 1, 255}

Payloads == UNION {[1 .. n -> PayloadBytes] : n \in 0 .. MaxPayload}

\* the sum of the bytes of a payload
RECURSIVE Total(_)
Total(data) == IF data = <<>> THEN 0 ELSE Head(data) + Total(Tail(data))

\* the declared checksum: the right one, its neighbours, and one that differs
\* in the high half only
Declared(data) ==
    LET c == U32Of(Total(data))
    IN  {c, U32Wrap(U32Plus(c, 1)), U32Wrap(U32Minus1(c)), <<1, c[2]>>}

ParserInputs ==
    UNION {
      UNION {
        {ChunkBytes(magic, compression, 0, U32Of(Len(data) + more), <<0, 5>>, sum, data) :
            magic \in {SQSH, <<83, 81, 83, 88>>}, compression \in 0 .. 3, more \in {0, 1}}
        : sum \in Declared(data)}
      : data \in Payloads}

\* HapiCompressedChunk::read(reader)
PkParse ==
    /\ pk.status = "unparsed"
    /\ pk' = [pk EXCEPT !.status = "parsed", !.result = ParseChunk(pk.bytes, 0)]
    /\ UNCHANGED <<chunk, lz, output, emitted, ref, rd, hd, fc, wf, toc, dec, ar>>

FlipValues == {0, 1, 2, 128, 255}

\* one payload byte of an accepted chunk is changed and the chunk is read again
PkFlip ==
    /\ pk.status = "parsed"
    /\ pk.result.status = "ok"
    /\ \E i \in 1 .. Len(pk.result.data) : \E v \in FlipValues \ {pk.result.data[i]} :
         LET b == [pk.bytes EXCEPT ![19 + i] = v]
         IN  pk' = [pk EXCEPT !.status = "flipped", !.bytes = b,
                              !.result = ParseChunk(b, 0)]
    /\ UNCHANGED <<chunk, lz, output, emitted, ref, rd, hd, fc, wf, toc, dec, ar>>

PkInit ==
    /\ pk \in [bytes : ParserInputs, status : {"unparsed"}, result : {Failed("none", 0)}]
    /\ chunk = Idle
    /\ lz = Idle
    /\ output = <<>>
    /\ emitted = <<>>
    /\ ref = <<>>
    /\ rd = Idle
    /\ hd = Idle
    /\ fc = Idle
    /\ wf = Idle
    /\ toc = Idle
    /\ dec = Idle
    /\ ar = Idle

PkNext == PkParse \/ PkFlip

SpecChunk == PkInit /\ [][PkNext]_vars

\* the input has valid magic, a compression kind other than None and all of
\* its compressed_size payload bytes
WellFormedChunk ==
    /\ Len(pk.bytes) >= 19
    /\ SubSeq(pk.bytes, 1, 4) = SQSH
    /\ pk.bytes[6] \in {1, 2}
    /\ Len(pk.bytes) = 19 + CountOf(ReadU32(pk.bytes, 7))

\* C6: a chunk with valid magic and a compression kind other than None is
\* accepted if and only if the 32-bit wraparound sum of its payload bytes
\* equals its declared checksum, and rejected with the checksum error
\* otherwise; changing one payload byte of an accepted chunk always makes the
\* parse fail with the checksum error.
C6_ChecksumDecides ==
    /\ (pk.status # "unparsed" /\ WellFormedChunk) =>
          LET sum == U32Of(Total(SubSeq(pk.bytes, 20, Len(pk.bytes))))
          IN  IF sum = ReadU32(pk.bytes, 15)
              THEN pk.result.status = "ok"
              ELSE pk.result.status = "BadChecksum"
    /\ pk.status = "flipped" => pk.result.status = "BadChecksum"

\* a payload byte of an accepted chunk whose sum passes 255 has been changed
C6_Witness ==
    /\ pk.status = "flipped"
    /\ Len(pk.result.data) = 0
    /\ Total(SubSeq(pk.bytes, 20, Len(pk.bytes))) > 255

-----------------------------------------------------------------------------
(* The header decoder and key derivation: HapiReader::new                   *)

HAPI_MAGIC == <<72, 65, 80, 73>>

HAPI_SAVE_MARKER == <<66, 65, 78, 75>>

HAPI_ARCHIVE_MARKER == <<0, 0, 1, 0>>

NoHeader == [marker |-> <<>>, size |-> <<0, 0>>, key |-> <<0, 0>>,
             start_offset |-> <<0, 0>>, warned |-> FALSE]

\* parse_header without the mapping of a short magic to "Not a HAPI archive"
ParseHeaderEofUnmapped(b) ==
    IF Len(b) < 4 THEN [status |-> "UnexpectedEof", header |-> NoHeader]
    ELSE IF SubSeq(b, 1, 4) # HAPI_MAGIC
    THEN [status |-> "Not a HAPI archive", header |-> NoHeader]
    ELSE IF Len(b) < 8 THEN [status |-> "UnexpectedEof", header |-> NoHeader]
    ELSE IF SubSeq(b, 5, 8) = HAPI_SAVE_MARKER
    THEN [status |-> "Save data is not supported yet", header |-> NoHeader]
    ELSE IF Len(b) < 20 THEN [status |-> "UnexpectedEof", header |-> NoHeader]
    ELSE [status |-> "ok",
          header |-> [marker |-> SubSeq(b, 5, 8), size |-> ReadU32(b, 8),
                      key |-> ReadU32(b, 12), start_offset |-> ReadU32(b, 16),
                      warned |-> SubSeq(b, 5, 8) # HAPI_ARCHIVE_MARKER]]

\* fn parse_header(reader) on a stream holding the bytes b
ParseHeader(b) ==
    IF Len(b) < 4 THEN [status |-> "Not a HAPI archive", header |-> NoHeader]
    ELSE IF SubSeq(b, 1, 4) # HAPI_MAGIC
    THEN [status |-> "Not a HAPI archive", header |-> NoHeader]
    ELSE IF Len(b) < 8 THEN [status |-> "UnexpectedEof", header |-> NoHeader]
    ELSE IF SubSeq(b, 5, 8) = HAPI_SAVE_MARKER
    THEN [status |-> "Save data is not supported yet", header |-> NoHeader]
    ELSE IF Len(b) < 20 THEN [status |-> "UnexpectedEof", header |-> NoHeader]
    ELSE [status |-> "ok",
          header |-> [marker |-> SubSeq(b, 5, 8), size |-> ReadU32(b, 8),
                      key |-> ReadU32(b, 12), start_offset |-> ReadU32(b, 16),
                      warned |-> SubSeq(b, 5, 8) # HAPI_ARCHIVE_MARKER]]

\* "Derive cipher key": None for seed 0, else !((key * 4) | (key >> 6)); the
\* product panics on overflow in a build with overflow checks and wraps in one
\* without
DeriveKey(seed, build) ==
    IF seed = <<0, 0>> THEN [status |-> "ok", key |-> NoKey]
    ELSE LET times4 == U32Times4(seed)
         IN  IF U32Overflowed(times4) /\ build = "debug"
             THEN [status |-> "panic", key |-> NoKey]
             ELSE [status |-> "ok",
                   key |-> U32Not(U32Or(U32Wrap(times4), U32Shr6(seed)))]

\* let header = HapiReader::parse_header(&mut inner)?
HdParseHeader ==
    /\ hd.stage = "new"
    /\ LET r == ParseHeader(hd.bytes)
       IN  hd' = [hd EXCEPT !.stage = IF r.status = "ok" THEN "parsed" ELSE "failed",
                            !.parse = r.status,
                            !.header = r.header]
    /\ UNCHANGED <<chunk, lz, output, emitted, ref, rd, pk, fc, wf, toc, dec, ar>>

\* the rest of HapiReader::new: the key and the reader's fields
HdDeriveKey ==
    /\ hd.stage = "parsed"
    /\ LET r == DeriveKey(hd.header.key, hd.build)
       IN  hd' = [hd EXCEPT !.stage = "done", !.reader = r]
    /\ UNCHANGED <<chunk, lz, output, emitted, ref, rd, pk, fc, wf, toc, dec, ar>>

\* the raw cipher seeds of the headers: 0, small ones, and those around 2^30
Seeds == {<<0, 0>>, <<0, 1>>, <<0, 64>>, <<4660, 22136>>, <<16383, 65535>>,
          <<16384, 0>>, <<32768, 0>>, <<65535, 65535>>}

HeaderBytes(magic, marker, seed) ==
    magic \o marker \o U32Bytes(<<0, 64>>) \o U32Bytes(seed) \o U32Bytes(<<0, 20>>)
          \o <<0>>

Magics == {HAPI_MAGIC, <<72, 65, 80, 74>>, <<88, 65, 80, 73>>, HAPI_SAVE_MARKER}

Markers == {HAPI_SAVE_MARKER, HAPI_ARCHIVE_MARKER, <<0, 0, 0, 0>>, <<66, 65, 78, 76>>}

HeaderInputs ==
    UNION {{SubSeq(HeaderBytes(magic, marker, seed), 1, n) : n \in 0 .. 21} :
              magic \in Magics, marker \in Markers, seed \in Seeds}

HdInit ==
    /\ hd \in [bytes : HeaderInputs, build : Builds, stage : {"new"},
               parse : {"none"}, header : {NoHeader},
               reader : {[status |-> "none", key |-> NoKey]}]
    /\ chunk = Idle
    /\ lz = Idle
    /\ output = <<>>
    /\ emitted = <<>>
    /\ ref = <<>>
    /\ rd = Idle
    /\ pk = Idle
    /\ fc = Idle
    /\ wf = Idle
    /\ toc = Idle
    /\ dec = Idle
    /\ ar = Idle

HdNext == HdParseHeader \/ HdDeriveKey

SpecOpen == HdInit /\ [][HdNext]_vars

StartsWithMagic == Len(hd.bytes) >= 4 /\ SubSeq(hd.bytes, 1, 4) = <<72, 65, 80, 73>>

MarkerIsBank == Len(hd.bytes) >= 8 /\ SubSeq(hd.bytes, 5, 8) = <<66, 65, 78, 75>>

\* C7: an input that does not start with "HAPI" (shorter than 4 bytes
\* included, whatever the marker) fails with the not-this-format error; valid
\* magic with the marker "BANK" fails with the unsupported-variant error; valid
\* magic, any other marker and a complete 20-byte header succeeds.
C7_HeaderOutcome ==
    hd.stage # "new" =>
        /\ ~StartsWithMagic => hd.parse = "Not a HAPI archive"
        /\ (StartsWithMagic /\ MarkerIsBank) => hd.parse = "Save data is not supported yet"
        /\ (StartsWithMagic /\ Len(hd.bytes) >= 20 /\ ~MarkerIsBank) => hd.parse = "ok"

\* an input shorter than the magic has been refused
C7_Witness ==
    /\ hd.stage = "failed"
    /\ Len(hd.bytes) \in 1 .. 3
    /\ hd.parse = "Not a HAPI archive"

C7_UnknownMarkerAccepted ==
    /\ hd.stage = "parsed"
    /\ hd.header.marker = <<66, 65, 78, 76>>
    /\ hd.header.warned

\* NOT((seed * 4) OR (seed >> 6)) in 32 bits, on the two halves of the seed
ExpectedKey(seed) ==
    LET hi4 == (seed[1] * 4 + (seed[2] * 4) \div 65536) % 65536
        lo4 == (seed[2] * 4) % 65536
        hi6 == seed[1] \div 64
        lo6 == (seed[2] \div 64) + (seed[1] % 64) * 1024
    IN  <<65535 - BitOr(hi4, hi6), 65535 - BitOr(lo4, lo6)>>

\* C8: for every 32-bit seed the key derivation completes: the key is absent
\* if and only if the seed is 0, and for a nonzero seed (2^30 and above
\* included) it is NOT((seed * 4) OR (seed >> 6)) in 32 bits.
C8_KeyDerived ==
    hd.stage = "done" =>
        /\ hd.reader.status = "ok"
        /\ hd.reader.key = NoKey <=> hd.header.key = <<0, 0>>
        /\ hd.header.key # <<0, 0>> => hd.reader.key = ExpectedKey(hd.header.key)

-----------------------------------------------------------------------------
(* The chunk count of a compressed file: HapiFileContents::Compressed       *)

HAPI_CHUNK_SIZE == 65536

\* (extracted_size + HAPI_CHUNK_SIZE - 1) / HAPI_CHUNK_SIZE in u32: the sum
\* panics on overflow in a build with overflow checks and wraps in one without
ChunkCount(extracted_size, build) ==
    LET sum == U32Plus(extracted_size, HAPI_CHUNK_SIZE)
    IN  IF U32Overflowed(sum) /\ build = "debug"
        THEN [status |-> "panic", count |-> 0]
        ELSE LET less1 == U32Minus1(U32Wrap(sum))
             IN  IF U32Overflowed(less1) /\ build = "debug"
                 THEN [status |-> "panic", count |-> 0]
                 ELSE [status |-> "ok", count |-> U32Wrap(less1)[1]]

\* the variant HapiFileContents::read_args takes and the number of chunks it
\* goes on to read
FcResolve ==
    /\ fc.status = "new"
    /\ fc' = IF fc.compression = "None"
             THEN [fc EXCEPT !.status = "ok", !.variant = "Uncompressed"]
             ELSE LET r == ChunkCount(fc.extracted_size, fc.build)
                  IN  [fc EXCEPT !.status = r.status, !.variant = "Compressed",
                                 !.count = r.count]
    /\ UNCHANGED <<chunk, lz, output, emitted, ref, rd, pk, hd, wf, toc, dec, ar>>

ExtractedSizes ==
    {<<0, 0>>, <<0, 1>>, <<0, 2>>, <<0, 65535>>, <<1, 0>>, <<1, 1>>, <<2, 0>>,
     <<2, 1>>, <<32768, 0>>, <<65534, 65535>>, <<65535, 0>>, <<65535, 1>>,
     <<65535, 32768>>, <<65535, 65535>>}

FcInit ==
    /\ fc \in [extracted_size : ExtractedSizes, compression : {"None", "Lz77", "Zlib"},
               build : Builds, status : {"new"}, variant : {"none"}, count : {0}]
    /\ chunk = Idle
    /\ lz = Idle
    /\ output = <<>>
    /\ emitted = <<>>
    /\ ref = <<>>
    /\ rd = Idle
    /\ pk = Idle
    /\ hd = Idle
    /\ wf = Idle
    /\ toc = Idle
    /\ dec = Idle
    /\ ar = Idle

FcNext == FcResolve

SpecCount == FcInit /\ [][FcNext]_vars

\* ceil(extracted_size / 65536)
CeilChunks(size) == IF size[2] = 0 THEN size[1] ELSE size[1] + 1

\* C9: for every 32-bit extracted_size of a compressed file the number of
\* chunks read is ceil(extracted_size / 65536): 0 for 0, 1 for 1..65536, and
\* 65536 above 2^32 - 65536; the computation neither fails nor yields less.
C9_ChunkCountIsCeil ==
    (fc.status # "new" /\ fc.compression # "None") =>
        /\ fc.status = "ok"
        /\ fc.count = CeilChunks(fc.extracted_size)

-----------------------------------------------------------------------------
(* write_file: the file contents are read, then each chunk is decompressed   *)

\* Most chunks of a file handed to write_file.
MaxChunks == 2

\* the outcome of a decompress that fails on a size mismatch
AfterDecodeStrict(real_size, decompressed_size) ==
    [result |-> IF U32Of(real_size) # decompressed_size THEN "Err" ELSE "Ok",
     warned |-> U32Of(real_size) # decompressed_size]

\* decompress after a successful decode: real_size != self.decompressed_size
\* prints a warning, and Ok(()) is returned either way
AfterDecode(real_size, decompressed_size) ==
    [result |-> "Ok", warned |-> U32Of(real_size) # decompressed_size]

\* What zlib::Decoder and io::copy may do with a payload: fail before or after
\* some output, or succeed with some output.
ZlibOutcomes ==
    [ok : BOOLEAN, bytes : {<<>>, <<67>>, <<67, 68>>}]

\* HapiCompressedChunk::decompress with the Lz77 decoder
DecompressLz77(c) ==
    LET t == RunLz77(LzStart, [prefixLen |-> 0, tail |-> c.data,
                               is_enciphered |-> c.is_enciphered,
                               compression |-> c.compression,
                               decompressed_size |-> c.decompressed_size])
    IN  IF t.status = "ok"
        THEN LET a == AfterDecode(t.ret, c.decompressed_size)
             IN  [decoded |-> TRUE, result |-> a.result, warned |-> a.warned,
                  bytes |-> t.written, real_size |-> t.ret]
        ELSE [decoded |-> FALSE,
              result |-> IF t.status = "panic" THEN "panic" ELSE "Err",
              warned |-> FALSE, bytes |-> <<>>, real_size |-> 0]

\* HapiCompressedChunk::decompress with the zlib decoder, whose outcome is z
DecompressZlib(c, z) ==
    IF z.ok
    THEN LET a == AfterDecode(Len(z.bytes), c.decompressed_size)
         IN  [decoded |-> TRUE, result |-> a.result, warned |-> a.warned,
              bytes |-> z.bytes, real_size |-> Len(z.bytes)]
    ELSE [decoded |-> FALSE, result |-> "Err", warned |-> FALSE,
          bytes |-> z.bytes, real_size |-> Len(z.bytes)]

\* Vec<HapiCompressedChunk> with count = n, read from offset p on
RECURSIVE ReadChunks(_, _, _, _)
ReadChunks(b, p, n, acc) ==
    IF n = 0 THEN [status |-> "ok", chunks |-> acc, next |-> p]
    ELSE LET c == ParseChunk(b, p)
         IN  IF c.status # "ok" THEN [status |-> c.status, chunks |-> <<>>, next |-> p]
             ELSE ReadChunks(b, c.next, n - 1, Append(acc, c))

\* HapiFileContents::read_args(reader, (extracted_size, compression)) at offset p
ReadContents(b, p, extracted_size, compression, build) ==
    IF compression = "None"
    THEN LET n == CountOf(extracted_size)
         IN  IF Len(b) < p + n
             THEN [status |-> "Io", variant |-> "none", data |-> <<>>, chunks |-> <<>>]
             ELSE [status |-> "ok", variant |-> "Uncompressed",
                   data |-> SubSeq(b, p + 1, p + n), chunks |-> <<>>]
    ELSE LET cc == ChunkCount(extracted_size, build)
         IN  IF cc.status # "ok"
             THEN [status |-> cc.status, variant |-> "none", data |-> <<>>,
                   chunks |-> <<>>]
             ELSE IF Len(b) < p + 4 * cc.count
             THEN [status |-> "Io", variant |-> "none", data |-> <<>>, chunks |-> <<>>]
             ELSE LET r == ReadChunks(b, p + 4 * cc.count, cc.count, <<>>)
                  IN  [status |-> r.status,
                       variant |-> IF r.status = "ok" THEN "Compressed" ELSE "none",
                       data |-> <<>>, chunks |-> r.chunks]

\* write_file up to the match on the contents: the seek to contents_offset and
\* the read of the contents; an uncompressed file is written out here
WfRead ==
    /\ wf.status = "called"
    /\ LET r == ReadContents(wf.file, CountOf(wf.entry.contents_offset),
                             wf.entry.extracted_size, wf.entry.compression, wf.build)
       IN  /\ wf' = [wf EXCEPT
                       !.status = IF r.status = "panic" THEN "panic"
                                  ELSE IF r.status # "ok" THEN "Err"
                                  ELSE IF r.variant = "Uncompressed" \/ r.chunks = <<>>
                                  THEN "Ok"
                                  ELSE "chunks",
                       !.read = r.status,
                       !.chunks = r.chunks,
                       !.idx = 1]
           /\ output' = output \o r.data
    /\ UNCHANGED <<chunk, lz, emitted, ref, rd, pk, hd, fc, toc, dec, ar>>

\* chunks.iter().try_for_each(|chunk| chunk.decompress(output)): one chunk
WfDecompress ==
    /\ wf.status = "chunks"
    /\ LET c == wf.chunks[wf.idx]
       IN  \E d \in IF c.compression = "Lz77" THEN {DecompressLz77(c)}
                    ELSE {DecompressZlib(c, z) : z \in ZlibOutcomes} :
             /\ output' = output \o d.bytes
             /\ wf' = [wf EXCEPT
                         !.status = IF d.result # "Ok" THEN d.result
                                    ELSE IF wf.idx = Len(wf.chunks) THEN "Ok"
                                    ELSE "chunks",
                         !.idx = wf.idx + 1,
                         !.log = Append(wf.log, d)]
    /\ UNCHANGED <<chunk, lz, emitted, ref, rd, pk, hd, fc, toc, dec, ar>>

\* a payload as a chunk with the enciphered flag stores it
RECURSIVE ChunkCipher(_, _)
ChunkCipher(data, i) ==
    IF data = <<>> THEN <<>>
    ELSE <<(BitXor(Head(data), i % 256) + i) % 256>> \o ChunkCipher(Tail(data), i + 1)

\* The chunks of the archives: a payload, what it decodes to, the header fields
\* that go with it and whether the chunk is valid.
Lz77Payloads ==
    {[data |-> FiveLiterals, flag |-> 0, plain |-> <<65, 65, 65, 65, 65>>],
     [data |-> ChunkCipher(FiveLiterals, 0), flag |-> 1, plain |-> <<65, 65, 65, 65, 65>>],
     [data |-> <<2, 66, 0, 0>>, flag |-> 0, plain |-> <<66>>],
     [data |-> <<0, 65>>, flag |-> 0, plain |-> <<>>],
     [data |-> <<1>>, flag |-> 0, plain |-> <<>>]}

StoredChunks ==
    {[bytes |-> ChunkBytes(SQSH, 1, t.flag, U32Of(Len(t.data)), declared,
                           U32Of(Total(t.data)), t.data),
      plain |-> t.plain, valid |-> TRUE] :
        t \in Lz77Payloads, declared \in {<<0, 1>>, <<0, 5>>}}
    \cup
    {[bytes |-> ChunkBytes(SQSH, 2, 0, U32Of(2), declared, U32Of(276), <<120, 156>>),
      plain |-> <<>>, valid |-> TRUE] : declared \in {<<0, 1>>, <<0, 5>>}}
    \cup
    {[bytes |-> ChunkBytes(SQSH, 1, 0, U32Of(8), <<0, 5>>,
                           U32Of(Total(FiveLiterals) + 1), FiveLiterals),
      plain |-> <<>>, valid |-> FALSE],
     [bytes |-> ChunkBytes(<<83, 81, 83, 73>>, 1, 0, U32Of(8), <<0, 5>>,
                           U32Of(Total(FiveLiterals)), FiveLiterals),
      plain |-> <<>>, valid |-> FALSE],
     [bytes |-> ChunkBytes(SQSH, 0, 0, U32Of(8), <<0, 5>>,
                           U32Of(Total(FiveLiterals)), FiveLiterals),
      plain |-> <<>>, valid |-> FALSE]}

RECURSIVE Concat(_, _)
Concat(seq, field) ==
    IF seq = <<>> THEN <<>> ELSE Head(seq)[field] \o Concat(Tail(seq), field)

\* the bytes of an archive whose file at offset pad is stored as the chunks cs
CompressedFile(pad, cs) ==
    [i \in 1 .. pad |-> 0]
        \o [i \in 1 .. 4 * Len(cs) |-> 0]
        \o Concat(cs, "bytes")

Calls ==
    {[file |-> CompressedFile(pad, cs),
      entry |-> [contents_offset |-> U32Of(pad),
                 extracted_size |-> IF cs = <<>> THEN <<0, 0>> ELSE <<Len(cs) - 1, 1>>,
                 compression |-> "Lz77"],
      plain |-> [k \in 1 .. Len(cs) |-> cs[k].plain],
      valid |-> [k \in 1 .. Len(cs) |-> cs[k].valid],
      build |-> build, status |-> "called", read |-> "none",
      chunks |-> <<>>, idx |-> 0, log |-> <<>>] :
        pad \in {0, 2}, build \in Builds,
        cs \in UNION {[1 .. n -> StoredChunks] : n \in 0 .. MaxChunks}}
    \cup
    \* a size for which the count is not computed as the ceiling: the contents
    \* are not read
    {[file |-> CompressedFile(pad, cs),
      entry |-> [contents_offset |-> U32Of(pad), extracted_size |-> <<65535, 65535>>,
                 compression |-> "Lz77"],
      plain |-> [k \in 1 .. Len(cs) |-> cs[k].plain],
      valid |-> [k \in 1 .. Len(cs) |-> cs[k].valid],
      build |-> build, status |-> "called", read |-> "none",
      chunks |-> <<>>, idx |-> 0, log |-> <<>>] :
        pad \in {0, 2}, build \in Builds, cs \in [1 .. 1 -> StoredChunks]}
    \cup
    {[file |-> [i \in 1 .. pad |-> 0] \o <<104, 105>>,
      entry |-> [contents_offset |-> U32Of(pad), extracted_size |-> U32Of(n),
                 compression |-> "None"],
      plain |-> <<>>, valid |-> <<>>,
      build |-> build, status |-> "called", read |-> "none",
      chunks |-> <<>>, idx |-> 0, log |-> <<>>] :
        pad \in {0, 2}, build \in Builds, n \in 0 .. 3}

WfInit ==
    /\ wf \in Calls
    /\ chunk = Idle
    /\ lz = Idle
    /\ output = <<>>
    /\ emitted = <<>>
    /\ ref = <<>>
    /\ rd = Idle
    /\ pk = Idle
    /\ hd = Idle
    /\ fc = Idle
    /\ toc = Idle
    /\ dec = Idle
    /\ ar = Idle

WfNext == WfRead \/ WfDecompress

SpecWrite == WfInit /\ [][WfNext]_vars

\* the chunk decoded to a byte count other than its declared decompressed_size
Mismatched(k) ==
    /\ wf.log[k].decoded
    /\ wf.log[k].real_size # CountOf(wf.chunks[k].decompressed_size)

\* C10: a chunk that decompresses successfully to a byte count other than its
\* declared decompressed_size (larger or smaller) still makes decompress return
\* success, with all its decoded bytes in the sink, and write_file goes on to
\* the remaining chunks in order; the mismatch alone never produces an error.
C10_MismatchIsNotAnError ==
    wf.status \in {"chunks", "Ok", "Err", "panic"} /\ wf.read = "ok" =>
        /\ \A k \in 1 .. Len(wf.log) :
              /\ Mismatched(k) => wf.log[k].result = "Ok"
              /\ (wf.log[k].decoded /\ wf.chunks[k].compression = "Lz77") =>
                     wf.log[k].bytes = wf.plain[k]
              /\ k < Len(wf.log) => wf.log[k].decoded
        /\ wf.entry.compression # "None" => output = Concat(wf.log, "bytes")
        /\ wf.status = "chunks" => Len(wf.log) = wf.idx - 1 /\ wf.idx <= Len(wf.chunks)
        /\ wf.status = "Ok" => Len(wf.log) = Len(wf.chunks)
        /\ wf.status \in {"Err", "panic"} =>
              Len(wf.log) > 0 /\ ~wf.log[Len(wf.log)].decoded

\* a first Lz77 chunk that decoded to more than it declared and a second one
\* that decoded to less, both written, and write_file returned Ok
C10_Witness ==
    /\ wf.status = "Ok"
    /\ Len(wf.log) = 2
    /\ \A k \in 1 .. 2 : wf.chunks[k].compression = "Lz77"
    /\ Mismatched(1) /\ wf.log[1].real_size > CountOf(wf.chunks[1].decompressed_size)
    /\ Mismatched(2) /\ wf.log[2].real_size < CountOf(wf.chunks[2].decompressed_size)
    /\ output = wf.log[1].bytes \o wf.log[2].bytes
    /\ wf.log[2].bytes # <<>>

\* C15: write_file writes no byte to the sink until every chunk of the file has
\* been read and has passed magic, compression-kind and checksum validation: if
\* any chunk, the last one included, has a bad magic, compression kind None or
\* a checksum mismatch, write_file returns an error and the sink is unchanged,
\* even when all earlier chunks were valid.
C15_NothingWrittenBeforeValidation ==
    wf.status \in {"chunks", "Ok", "Err", "panic"} =>
        /\ (\E k \in 1 .. Len(wf.valid) : ~wf.valid[k]) =>
               /\ wf.status = "Err"
               /\ output = <<>>
        /\ (output # <<>> /\ wf.entry.compression # "None") =>
               /\ wf.read = "ok"
               /\ \A k \in 1 .. Len(wf.valid) : wf.valid[k]

-----------------------------------------------------------------------------
(* The directory parser: HapiDirectory, HapiEntryIndex, HapiEntry, HapiFile *)

\* Deepest nesting of directory blocks the parser is followed into.
MaxDepth == 3

\* Path::is_absolute (Unix): the path begins with the separator
IsAbsolute(p) == p # <<>> /\ p[1] = 47

\* PathBuf::push: an absolute argument replaces the path; otherwise a
\* separator is added unless the path is empty or ends with one, then the
\* argument
Push(path, name) ==
    IF IsAbsolute(name) THEN name
    ELSE IF path # <<>> /\ path[Len(path)] # 47 THEN path \o <<47>> \o name
    ELSE path \o name

\* NullString: the bytes from offset p up to the first zero byte
RECURSIVE ReadNullString(_, _, _)
ReadNullString(b, p, acc) ==
    IF p >= Len(b) THEN [status |-> "Io", name |-> <<>>]
    ELSE IF b[p + 1] = 0 THEN [status |-> "ok", name |-> acc]
    ELSE ReadNullString(b, p + 1, Append(acc, b[p + 1]))

\* an index record with a byte of padding after the flag
IndexLenPadded == 4 + 4 + 1 + 1

\* the bytes HapiEntryIndex reads from the stream: the name pointer, the
\* entry offset and the flag
IndexLen == 4 + 4 + 1

NoIndex(status) ==
    [status |-> status, name |-> <<>>, entry_offset |-> 0, is_dir |-> FALSE,
     name_at |-> 0, entry_at |-> 0, flag_at |-> 0, next |-> 0]

\* HapiEntryIndex::read_options at offset p: the name through its pointer
\* (the stream returns to after the pointer), entry_offset, is_dir
ReadIndex(b, p) ==
    IF Len(b) < p + 4 THEN NoIndex("Io")
    ELSE LET nm == ReadNullString(b, CountOf(ReadU32(b, p)), <<>>)
         IN  IF nm.status # "ok" THEN NoIndex(nm.status)
             ELSE IF Len(b) < p + 9 THEN NoIndex("Io")
             ELSE [status |-> "ok", name |-> nm.name,
                   entry_offset |-> CountOf(ReadU32(b, p + 4)),
                   is_dir |-> b[p + 9] = 1,
                   name_at |-> p, entry_at |-> p + 4, flag_at |-> p + 8,
                   next |-> p + IndexLen]

\* HapiDirectory::read_options up to the seek to its contents: count, then the
\* pointer of FilePtr32::parse, which remembers the position after the pointer
ReadDirHeader(b, p) ==
    IF Len(b) < p + 8 THEN [status |-> "Io", count |-> 0, ptr |-> 0, before |-> 0]
    ELSE [status |-> "ok", count |-> CountOf(ReadU32(b, p)),
          ptr |-> CountOf(ReadU32(b, p + 4)), before |-> p + 8]

\* HapiFile::read_options at offset p
ReadFile(b, p) ==
    IF Len(b) < p + 9
    THEN [status |-> "Io", contents_offset |-> <<0, 0>>, extracted_size |-> <<0, 0>>,
          compression |-> "none", next |-> p]
    ELSE IF b[p + 9] > 2
    THEN [status |-> "NoVariantMatch", contents_offset |-> <<0, 0>>,
          extracted_size |-> <<0, 0>>, compression |-> "none", next |-> p]
    ELSE [status |-> "ok", contents_offset |-> ReadU32(b, p),
          extracted_size |-> ReadU32(b, p + 4),
          compression |-> IF b[p + 9] = 0 THEN "None" ELSE CompressionOf(b[p + 9]),
          next |-> p + 9]

\* the stream is left where the body ended
NoRestore(old_pos, cur) == cur

\* reader.seek(old_pos) after the body of an entry
Restore(old_pos, cur) == old_pos

\* HapiArchive::open after the header: the seek to toc_offset and the head of
\* the root directory, whose path is "."
TocOpen ==
    /\ toc.status = "called"
    /\ LET h == ReadDirHeader(toc.file, toc.toc_offset)
       IN  toc' = IF h.status # "ok"
                  THEN [toc EXCEPT !.status = "Err", !.pos = toc.toc_offset]
                  ELSE [toc EXCEPT
                          !.status = "parsing",
                          !.pos = h.ptr,
                          !.nodes = <<[path |-> <<46>>, parent |-> 0, kind |-> "dir",
                                       k |-> 0, name |-> <<>>, rec_at |-> -1,
                                       rec_end |-> -1, body |-> toc.toc_offset, resumed |-> -1]>>,
                          !.stack = <<[node |-> 1, count |-> h.count,
                                       entries_ptr |-> h.ptr, k |-> 0,
                                       before |-> h.before, old_pos |-> -1]>>]
    /\ UNCHANGED <<chunk, lz, output, emitted, ref, rd, pk, hd, fc, wf, dec, ar>>

\* HapiEntry::read_options for the next entry of the directory being read: the
\* index record, the path, the seek to the body; a file body is read and the
\* position restored, a directory body is entered
TocEntry ==
    /\ toc.status = "parsing"
    /\ LET d == Len(toc.stack)
           f == toc.stack[d]
           r == ReadIndex(toc.file, toc.pos)
           path == Push(toc.nodes[f.node].path, r.name)
           node == [path |-> path, parent |-> f.node, kind |-> "file", k |-> f.k,
                    name |-> r.name, rec_at |-> r.name_at, rec_end |-> r.next,
                    body |-> r.entry_offset, resumed |-> -1]
           entry == [dir |-> f.node, k |-> f.k, entries_ptr |-> f.entries_ptr,
                     name_at |-> r.name_at, entry_at |-> r.entry_at,
                     flag_at |-> r.flag_at, next |-> r.next]
       IN  /\ f.k < f.count
           /\ toc' =
                IF r.status # "ok" THEN [toc EXCEPT !.status = "Err"]
                ELSE IF r.is_dir
                THEN LET h == ReadDirHeader(toc.file, r.entry_offset)
                     IN  IF d >= MaxDepth
                         THEN [toc EXCEPT !.status = "deep", !.log = Append(@, entry)]
                         ELSE IF h.status # "ok"
                         THEN [toc EXCEPT !.status = "Err", !.pos = r.entry_offset,
                                          !.log = Append(@, entry)]
                         ELSE [toc EXCEPT
                                 !.pos = h.ptr,
                                 !.log = Append(@, entry),
                                 !.nodes = Append(@, [node EXCEPT !.kind = "dir"]),
                                 !.stack = Append(@, [node |-> Len(toc.nodes) + 1,
                                                      count |-> h.count,
                                                      entries_ptr |-> h.ptr, k |-> 0,
                                                      before |-> h.before,
                                                      old_pos |-> r.next])]
                ELSE LET fl == ReadFile(toc.file, r.entry_offset)
                         back == Restore(r.next, fl.next)
                     IN  IF fl.status # "ok"
                         THEN [toc EXCEPT !.status = "Err", !.pos = r.entry_offset,
                                          !.log = Append(@, entry)]
                         ELSE [toc EXCEPT
                                 !.pos = back,
                                 !.log = Append(@, entry),
                                 !.nodes = Append(@, [node EXCEPT !.resumed = back]),
                                 !.stack[d].k = f.k + 1]
    /\ UNCHANGED <<chunk, lz, output, emitted, ref, rd, pk, hd, fc, wf, dec, ar>>

\* the last entry of a directory has been read: FilePtr32::parse returns to
\* the position after its pointer, and the entry that holds the directory
\* restores its own position; the root directory ends the parse
TocReturn ==
    /\ toc.status = "parsing"
    /\ LET d == Len(toc.stack)
           f == toc.stack[d]
           back == Restore(f.old_pos, f.before)
       IN  /\ f.k = f.count
           /\ toc' =
                IF d = 1
                THEN [toc EXCEPT !.status = "Ok", !.pos = f.before, !.stack = <<>>]
                ELSE [toc EXCEPT
                        !.pos = back,
                        !.nodes[f.node].resumed = back,
                        !.stack = [SubSeq(toc.stack, 1, d - 1) EXCEPT
                                      ![d - 1].k = toc.stack[d - 1].k + 1]]
    /\ UNCHANGED <<chunk, lz, output, emitted, ref, rd, pk, hd, fc, wf, dec, ar>>

\* The archives handed to the parser: a root directory of two entries, a
\* directory D and a file F1 in either order; D holds a file F2, a file of
\* unknown compression, nothing, or itself. The blocks are laid out in one of
\* three orders after the names, with or without a byte between index records.
EntryNames == {<<97>>, <<>>, <<46, 46>>, <<47, 97>>}

InnerNames == {<<97>>, <<46, 46>>}

BlockOrders ==
    {<<"RI", "D", "DI", "F1", "F2">>,
     <<"F2", "F1", "DI", "D", "RI">>,
     <<"D", "RI", "F2", "DI", "F1">>}

Inners == {"file", "bad", "empty", "cycle"}

BlockSize(id, pad) ==
    CASE id = "RI" -> 2 * (9 + pad)
      [] id = "D"  -> 8
      [] id = "DI" -> 9 + pad
      [] OTHER     -> 9

RECURSIVE BlockAt(_, _, _)
BlockAt(order, id, pad) ==
    IF Head(order) = id THEN 40
    ELSE BlockSize(Head(order), pad) + BlockAt(Tail(order), id, pad)

Le32(n) == U32Bytes(U32Of(n))

Padding(pad) == [i \in 1 .. pad |-> 0]

\* the bytes of the block id
BlockBytes(id, order, pad, swap, inner) ==
    LET dirRec == Le32(28) \o Le32(BlockAt(order, "D", pad)) \o <<1>> \o Padding(pad)
        fileRec == Le32(32) \o Le32(BlockAt(order, "F1", pad)) \o <<0>> \o Padding(pad)
    IN  CASE id = "RI" -> IF swap THEN fileRec \o dirRec ELSE dirRec \o fileRec
          [] id = "D"  -> Le32(IF inner = "empty" THEN 0 ELSE 1)
                              \o Le32(BlockAt(order, "DI", pad))
          [] id = "DI" -> IF inner = "cycle"
                          THEN Le32(36) \o Le32(BlockAt(order, "D", pad)) \o <<1>>
                                   \o Padding(pad)
                          ELSE Le32(36) \o Le32(BlockAt(order, "F2", pad)) \o <<0>>
                                   \o Padding(pad)
          [] id = "F1" -> Le32(0) \o Le32(2) \o <<1>>
          [] OTHER     -> Le32(0) \o Le32(2) \o <<IF inner = "bad" THEN 3 ELSE 0>>

TocFile(order, pad, swap, inner, n0, n1, n2) ==
    LET head == [i \in 1 .. 20 |-> 0] \o Le32(2) \o Le32(BlockAt(order, "RI", pad))
        name(n) == n \o [i \in 1 .. 4 - Len(n) |-> 0]
    IN  head \o name(n0) \o name(n1) \o name(n2)
             \o BlockBytes(order[1], order, pad, swap, inner)
             \o BlockBytes(order[2], order, pad, swap, inner)
             \o BlockBytes(order[3], order, pad, swap, inner)
             \o BlockBytes(order[4], order, pad, swap, inner)
             \o BlockBytes(order[5], order, pad, swap, inner)
             \o <<0, 0, 0, 0>>

TocInit ==
    /\ \E order \in BlockOrders, pad \in {0, 1}, swap \in BOOLEAN, inner \in Inners,
          n0 \in EntryNames, n1 \in EntryNames, n2 \in InnerNames :
          toc = [file |-> TocFile(order, pad, swap, inner, n0, n1, n2),
                 pad |-> pad, toc_offset |-> 20, pos |-> 0, status |-> "called",
                 nodes |-> <<>>, stack |-> <<>>, log |-> <<>>]
    /\ chunk = Idle
    /\ lz = Idle
    /\ output = <<>>
    /\ emitted = <<>>
    /\ ref = <<>>
    /\ rd = Idle
    /\ pk = Idle
    /\ hd = Idle
    /\ fc = Idle
    /\ wf = Idle
    /\ dec = Idle
    /\ ar = Idle

TocNext == TocOpen \/ TocEntry \/ TocReturn

SpecToc == TocInit /\ [][TocNext]_vars

\* the pieces of p between separators
RECURSIVE SplitSep(_, _, _)
SplitSep(p, cur, acc) ==
    IF p = <<>> THEN Append(acc, cur)
    ELSE IF Head(p) = 47 THEN SplitSep(Tail(p), <<>>, Append(acc, cur))
    ELSE SplitSep(Tail(p), Append(cur, Head(p)), acc)

RECURSIVE Normal(_)
Normal(pieces) ==
    IF pieces = <<>> THEN <<>>
    ELSE IF Head(pieces) \in {<<>>, <<46>>} THEN Normal(Tail(pieces))
    ELSE <<Head(pieces)>> \o Normal(Tail(pieces))

\* the components of a path: the root for a leading separator, "." only at
\* the head of a relative path, no empty component
Components(p) ==
    LET pieces == SplitSep(p, <<>>, <<>>)
    IN  IF IsAbsolute(p) THEN <<<<47>>>> \o Normal(Tail(pieces))
        ELSE IF Head(pieces) = <<46>> THEN <<<<46>>>> \o Normal(Tail(pieces))
        ELSE Normal(pieces)

\* following the components below "." never leaves it
RECURSIVE StaysBelow(_, _)
StaysBelow(c, depth) ==
    IF c = <<>> THEN TRUE
    ELSE IF Head(c) = <<46, 46>> THEN depth > 0 /\ StaysBelow(Tail(c), depth - 1)
    ELSE StaysBelow(Tail(c), depth + 1)

InsideRoot(p) ==
    LET c == Components(p)
    IN  c # <<>> /\ c[1] = <<46>> /\ StaysBelow(Tail(c), 0)

\* C11: in every directory tree the parser produces, for every decoded name
\* (an empty name, "..", a name beginning with a separator included) an
\* entry's path is its parent's path with exactly one component appended, so
\* every ancestor's path is a strict prefix of it, and no path lies outside
\* the root ".".
C11_PathsAdditive ==
    toc.status # "idle" =>
        \A n \in 2 .. Len(toc.nodes) :
            LET c == Components(toc.nodes[n].path)
                pc == Components(toc.nodes[toc.nodes[n].parent].path)
            IN  /\ Len(c) = Len(pc) + 1
                /\ SubSeq(c, 1, Len(pc)) = pc
                /\ InsideRoot(toc.nodes[n].path)

\* C12 as stated: the index records of a directory are read from consecutive
\* 10-byte slots starting at entries_ptr: name_ptr at entries_ptr + 10*k,
\* body_ptr 4 bytes on, the flag 8 bytes on, and one byte skipped after it.
C12_TenByteSlots ==
    toc.status # "idle" =>
        \A i \in 1 .. Len(toc.log) :
            LET e == toc.log[i]
            IN  /\ e.name_at = e.entries_ptr + 10 * e.k
                /\ e.entry_at = e.entries_ptr + 10 * e.k + 4
                /\ e.flag_at = e.entries_ptr + 10 * e.k + 8
                /\ e.next = e.entries_ptr + 10 * (e.k + 1)

\* C12 amended: the index records of a directory are read from consecutive
\* 9-byte slots starting at entries_ptr: name_ptr at entries_ptr + 9*k,
\* body_ptr 4 bytes on, the flag 8 bytes on, and no byte is skipped after it.
C12_NineByteSlots ==
    toc.status # "idle" =>
        \A i \in 1 .. Len(toc.log) :
            LET e == toc.log[i]
            IN  /\ e.name_at = e.entries_ptr + 9 * e.k
                /\ e.entry_at = e.entries_ptr + 9 * e.k + 4
                /\ e.flag_at = e.entries_ptr + 9 * e.k + 8
                /\ e.next = e.entries_ptr + 9 * (e.k + 1)

\* an archive of 9-byte records parsed to the end, the second record of the
\* root directory and the record of the nested directory included
C12_Witness ==
    /\ toc.status = "Ok"
    /\ toc.pad = 0
    /\ \E i, j \in 1 .. Len(toc.log) :
          /\ toc.log[i].dir = 1 /\ toc.log[i].k = 1
          /\ toc.log[j].dir # 1
    /\ Len(toc.nodes) = 4

\* C13: whenever the body of an index record (a file record or a nested
\* directory) has been parsed, the stream is at the position immediately after
\* that index record, wherever the body lies; so the records of a directory
\* are consumed in stored order and its children are in stored order.
C13_PositionRestored ==
    toc.status # "idle" =>
        /\ \A n \in 1 .. Len(toc.nodes) :
              toc.nodes[n].resumed # -1 => toc.nodes[n].resumed = toc.nodes[n].rec_end
        /\ \A i, j \in 1 .. Len(toc.log) :
              (i < j /\ toc.log[i].dir = toc.log[j].dir) =>
                  /\ toc.log[j].k > toc.log[i].k
                  /\ toc.log[j].k = toc.log[i].k + 1 =>
                         toc.log[j].name_at = toc.log[i].next
        /\ \A m, n \in 1 .. Len(toc.nodes) :
              (m < n /\ toc.nodes[m].parent = toc.nodes[n].parent) =>
                  /\ toc.nodes[m].k < toc.nodes[n].k
                  /\ toc.nodes[m].rec_at < toc.nodes[n].rec_at

\* a parse that ended with a nested directory whose body lies before its
\* index record and a file whose body lies after its own, both followed by the
\* next record of their directory
C13_Witness ==
    /\ toc.status = "Ok"
    /\ \E m, n \in 2 .. Len(toc.nodes) :
          /\ toc.nodes[m].kind = "dir" /\ toc.nodes[m].body < toc.nodes[m].rec_at
          /\ toc.nodes[m].resumed = toc.nodes[m].rec_end
          /\ toc.nodes[m].k = 0
          /\ toc.nodes[n].kind = "file" /\ toc.nodes[n].body > toc.nodes[n].rec_at
          /\ toc.nodes[n].resumed = toc.nodes[n].rec_end
          /\ toc.nodes[n].parent = 1 /\ toc.nodes[n].k = 1

-----------------------------------------------------------------------------
(* The chunk byte stream read in calls of any size                          *)

\* Length of the payloads read through the stream.
MaxStream == 260

\* the transform with the index counted within one read call
DecipherInCall(byte, count, cur_pos) ==
    BitXor((byte - count) % 256, count % 256)

\* count += self.cur_pos; *byte = ((*byte as usize).wrapping_sub(count) ^ count) as u8
\* (the low eight bits of the usize)
DecipherInChunk(byte, count, cur_pos) ==
    BitXor((byte - (count + cur_pos)) % 256, (count + cur_pos) % 256)

\* the stored payloads: two byte patterns of MaxStream bytes
StreamByte(pattern, i) == IF pattern = 0 THEN (i * 7 + 3) % 128 ELSE 127 - (i % 5)

\* HapiChunkDecoder::read with a buffer of n bytes
DecRead(n) ==
    /\ dec.status = "open"
    /\ LET bytes_count == IF n < Len(dec.data) - dec.cur_pos THEN n
                          ELSE Len(dec.data) - dec.cur_pos
           buf == [count \in 1 .. bytes_count |->
                      IF dec.is_enciphered
                      THEN DecipherInChunk(dec.data[dec.cur_pos + count], count - 1,
                                           dec.cur_pos)
                      ELSE dec.data[dec.cur_pos + count]]
       IN  dec' = [dec EXCEPT !.cur_pos = dec.cur_pos + bytes_count,
                              !.delivered = dec.delivered \o buf,
                              !.calls = IF bytes_count > 0 /\ dec.calls < 4
                                        THEN dec.calls + 1
                                        ELSE dec.calls]
    /\ UNCHANGED <<chunk, lz, output, emitted, ref, rd, pk, hd, fc, wf, toc, ar>>

\* the buffer sizes of the callers: Bytes reads one byte at a time, the zlib
\* decoder and io::copy read in blocks
BufSizes == {0, 1, 3, 128}

DecInit ==
    /\ \E pattern \in {0, 1}, flag \in {0, 1, 2} :
          dec = [data |-> [i \in 1 .. MaxStream |-> StreamByte(pattern, i)],
                 flag |-> flag, is_enciphered |-> (flag = 1),
                 cur_pos |-> 0, delivered |-> <<>>, calls |-> 0, status |-> "open"]
    /\ chunk = Idle
    /\ lz = Idle
    /\ output = <<>>
    /\ emitted = <<>>
    /\ ref = <<>>
    /\ rd = Idle
    /\ pk = Idle
    /\ hd = Idle
    /\ fc = Idle
    /\ wf = Idle
    /\ toc = Idle
    /\ ar = Idle

DecNext == \E n \in BufSizes : DecRead(n)

SpecStream == DecInit /\ [][DecNext]_vars

\* ((stored - i) XOR i) mod 256, the difference taken in two's complement
SubXor(stored, i) == BitXor(stored - i + 65536, i) % 256

\* C14: when is_enciphered is 1 the byte delivered for payload index i is
\* ((stored[i] - i) XOR i) mod 256, i counted from the start of the payload,
\* for every i and every way the payload is split into reads; when the flag is
\* not 1 every byte is delivered unchanged.
C14_ChunkCipherByIndex ==
    dec.status = "open" =>
        /\ Len(dec.delivered) = dec.cur_pos
        /\ \A i \in 1 .. Len(dec.delivered) :
              dec.delivered[i] = IF dec.flag = 1 THEN SubXor(dec.data[i], i - 1)
                                 ELSE dec.data[i]

\* an enciphered payload delivered to its end, past index 255, in more than
\* three calls
C14_Witness ==
    /\ dec.status = "open"
    /\ dec.flag = 1
    /\ dec.cur_pos = Len(dec.data)
    /\ dec.cur_pos > 256
    /\ dec.calls > 3
    /\ dec.delivered # dec.data

-----------------------------------------------------------------------------
(* One archive handle across write_file calls                               *)

\* Most write_file calls followed on one handle.
MaxCalls == 3

\* a seek relative to where the cursor is
SeekCurrent(pos, offset) == pos + offset

\* seek(SeekFrom::Start(entry.contents_offset as u64))
SeekStart(pos, offset) == offset

\* chunks.iter().try_for_each(|chunk| chunk.decompress(output)) over Lz77 chunks
RECURSIVE DecompressAll(_, _)
DecompressAll(chunks, out) ==
    IF chunks = <<>> THEN [status |-> "Ok", written |-> out]
    ELSE LET d == DecompressLz77(Head(chunks))
         IN  IF d.result # "Ok"
             THEN [status |-> d.result, written |-> out \o d.bytes]
             ELSE DecompressAll(Tail(chunks), out \o d.bytes)

\* Where the cursor may be after the contents were read from p: after the last
\* byte read on success; after a failed read, where the read began or anywhere
\* up to where it stopped (the end of the archive at most).
CursorAfter(b, p, r) ==
    IF r.status # "ok" THEN {p, Len(b)}
    ELSE IF r.variant = "Uncompressed" THEN {p + Len(r.data)}
    ELSE IF r.chunks = <<>> THEN {p}
    ELSE {r.chunks[Len(r.chunks)].next}

\* The files of the archive: stored bytes, the fields of the entry, and what a
\* write_file of the entry is to write and return.
ArBlocks ==
    <<[bytes |-> <<104, 105>>, extracted_size |-> <<0, 2>>, compression |-> "None",
       expect |-> <<104, 105>>, status |-> "Ok"],
      [bytes |-> [i \in 1 .. 8 |-> 0]
                    \o ChunkBytes(SQSH, 1, 0, U32Of(8), <<0, 5>>, U32Of(Total(FiveLiterals)), FiveLiterals)
                    \o ChunkBytes(SQSH, 1, 0, U32Of(4), <<0, 1>>, U32Of(Total(<<2, 66, 0, 0>>)), <<2, 66, 0, 0>>),
       extracted_size |-> <<1, 1>>, compression |-> "Lz77",
       expect |-> <<65, 65, 65, 65, 65, 66>>, status |-> "Ok"],
      [bytes |-> [i \in 1 .. 8 |-> 0]
                    \o ChunkBytes(SQSH, 1, 0, U32Of(8), <<0, 5>>, U32Of(Total(FiveLiterals)), FiveLiterals)
                    \o ChunkBytes(SQSH, 1, 0, U32Of(4), <<0, 1>>, U32Of(Total(<<2, 66, 0, 0>>) + 1),
                                 <<2, 66, 0, 0>>),
       extracted_size |-> <<1, 1>>, compression |-> "Lz77",
       expect |-> <<>>, status |-> "Err"],
      [bytes |-> [i \in 1 .. 8 |-> 0]
                    \o ChunkBytes(SQSH, 1, 0, U32Of(8), <<0, 5>>, U32Of(Total(FiveLiterals)), FiveLiterals)
                    \o ChunkBytes(SQSH, 1, 0, U32Of(2), <<0, 1>>, U32Of(Total(<<0, 65>>)), <<0, 65>>),
       extracted_size |-> <<1, 1>>, compression |-> "Lz77",
       expect |-> <<65, 65, 65, 65, 65>>, status |-> "Err"],
      [bytes |-> <<104>>, extracted_size |-> <<0, 200>>, compression |-> "None",
       expect |-> <<>>, status |-> "Err"]>>

\* the offset of file k in the archive, after a header of 20 bytes
RECURSIVE ArOffset(_)
ArOffset(k) == IF k = 1 THEN 20 ELSE ArOffset(k - 1) + Len(ArBlocks[k - 1].bytes)

ArFile == [i \in 1 .. 20 |-> 0] \o Concat(ArBlocks, "bytes")

\* write_file(entry, output) on the handle, the entry being file k
ArWriteFile(k) ==
    /\ ar.status = "open"
    /\ Len(ar.calls) < MaxCalls
    /\ LET e == ArBlocks[k]
           p == SeekStart(ar.pos, ArOffset(k))
           r == ReadContents(ar.file, p, e.extracted_size, e.compression, ar.build)
           w == IF r.status = "panic" THEN [status |-> "panic", written |-> <<>>]
                ELSE IF r.status # "ok" THEN [status |-> "Err", written |-> <<>>]
                ELSE IF r.variant = "Uncompressed"
                THEN [status |-> "Ok", written |-> r.data]
                ELSE DecompressAll(r.chunks, <<>>)
       IN  \E left \in CursorAfter(ar.file, p, r) :
              ar' = [ar EXCEPT !.pos = left,
                               !.calls = Append(@, [entry |-> k, from |-> ar.pos,
                                                    status |-> w.status,
                                                    written |-> w.written])]
    /\ UNCHANGED <<chunk, lz, output, emitted, ref, rd, pk, hd, fc, wf, toc, dec>>

ArInit ==
    /\ \E pos \in {28, Len(ArFile)}, build \in Builds :
          ar = [file |-> ArFile, pos |-> pos, build |-> build, calls |-> <<>>,
                status |-> "open"]
    /\ chunk = Idle
    /\ lz = Idle
    /\ output = <<>>
    /\ emitted = <<>>
    /\ ref = <<>>
    /\ rd = Idle
    /\ pk = Idle
    /\ hd = Idle
    /\ fc = Idle
    /\ wf = Idle
    /\ toc = Idle
    /\ dec = Idle

ArNext == \E k \in 1 .. Len(ArBlocks) : ArWriteFile(k)

SpecSession == ArInit /\ [][ArNext]_vars

\* C16: for any sequence of write_file calls on one handle, in any order of
\* entries and including calls that ended in an error part-way through
\* reading, each call writes for its entry what a first call after open writes
\* for it: the cursor left behind by earlier calls has no influence.
C16_CallsIndependent ==
    ar.status = "open" =>
        \A i \in 1 .. Len(ar.calls) :
            /\ ar.calls[i].written = ArBlocks[ar.calls[i].entry].expect
            /\ ar.calls[i].status = ArBlocks[ar.calls[i].entry].status
            /\ \A j \in 1 .. Len(ar.calls) :
                  ar.calls[j].entry = ar.calls[i].entry =>
                      ar.calls[j].written = ar.calls[i].written

\* a call that failed while reading its second chunk, then a call for a file
\* stored before it, then the same file again, each starting from a cursor
\* that is not at the file's contents
C16_Witness ==
    /\ ar.status = "open"
    /\ Len(ar.calls) = 3
    /\ ar.calls[1].entry = 3 /\ ar.calls[1].status = "Err"
    /\ ar.calls[2].entry = 2 /\ ar.calls[2].status = "Ok"
    /\ ar.calls[2].from > ArOffset(2)
    /\ ar.calls[3].entry = 2 /\ ar.calls[3].from = ArOffset(3)
    /\ ar.calls[3].written = <<65, 65, 65, 65, 65, 66>>

====
